---- MODULE Spec2Model ----
(***************************************************************************)
(* Model of glimpse/data_loading/generate_abstractive_candidates.py:       *)
(* the decoding-config registry, prepare_dataset, the batch loop of        *)
(* evaluate_summarizer (generate, pad, reshape, decode, pop-front map),    *)
(* and the explode / write tail of main.                                   *)
(*                                                                         *)
(* Strings the code takes apart (int(), str.replace) are sequences of      *)
(* one-character strings; literal fragments the code only concatenates     *)
(* are kept as one element.  Floats are records of their str() form and    *)
(* their value in hundredths.  A generated token row is identified by the  *)
(* dataset row it was generated from and its rank among that row's         *)
(* returned sequences; a zero row added by torch.nn.functional.pad has     *)
(* src = PadSrc.                                                           *)
(***************************************************************************)
EXTENDS Integers, Sequences, FiniteSets, TLC

VARIABLES
    pc,               \* position in main / evaluate_summarizer
    args,             \* parsed command line (parse_args)
    disk,             \* the csv files readable under dataset_path
    csv_rows,         \* number of rows of a readable csv file
    decoding_config,  \* the decoding_config argument of evaluate_summarizer
    dataset,          \* rows of the dataset, by 0-based row index
    dataloader,       \* batches the DataLoader has not delivered yet
    generated,        \* batches model.generate was called with, in order
    last_shape,       \* shape bookkeeping of the last loop iteration
    summaries,        \* the shared in-order list of candidate lists
    summary,          \* the "summary" column after dataset.map
    df_dataset,       \* the exploded frame
    error,            \* the exception that aborted the run ("none" if none)
    files,            \* output directory: set of [path, run, rows]
    written,          \* paths written so far, one entry per finished run
    clock,            \* wall clock, in ticks
    run               \* number of the current run

vars == << pc, args, disk, csv_rows, decoding_config, dataset, dataloader,
           generated, last_shape, summaries, summary, df_dataset, error,
           files, written, clock, run >>

(***************************************************************************)
(* Bounds of the model.                                                    *)
(***************************************************************************)
MaxRows == 3
MaxBatch == 3
MaxLimit == 1
MaxSeqLen == 2
MaxK == 3
MaxClock == 3
MaxRuns == 2
TicksPerSecond == 2

PadSrc == 0 - 1

(***************************************************************************)
(* String helpers.                                                         *)
(***************************************************************************)
Digits == <<"0", "1", "2", "3", "4", "5", "6", "7", "8", "9">>

IsDigit(c) == \E d \in 1..Len(Digits) : Digits[d] = c

DigitVal(c) == (CHOOSE d \in 1..Len(Digits) : Digits[d] = c) - 1

RECURSIVE Replace(_, _, _)
\* str.replace(old, new) for a one-character old.
Replace(s, old, new) ==
    IF s = <<>> THEN <<>>
    ELSE (IF Head(s) = old THEN new ELSE <<Head(s)>>) \o Replace(Tail(s), old, new)

RECURSIVE DecimalValue(_)
DecimalValue(s) ==
    IF s = <<>> THEN 0
    ELSE 10 * DecimalValue(SubSeq(s, 1, Len(s) - 1)) + DigitVal(s[Len(s)])

\* int(s): the value, or a ValueError (modelled as the empty set).
IntOf(s) ==
    IF s # <<>> /\ \A i \in 1..Len(s) : IsDigit(s[i])
    THEN {DecimalValue(s)}
    ELSE {}

(***************************************************************************)
(* The registry of decoding presets.                                       *)
(***************************************************************************)
\* The floats of the comprehension: str(topp) and the value in hundredths.
TopPs ==
    << [repr |-> <<"0", ".", "5">>, hundredths |-> 50],
       [repr |-> <<"0", ".", "8">>, hundredths |-> 80],
       [repr |-> <<"0", ".", "9", "5">>, hundredths |-> 95],
       [repr |-> <<"0", ".", "9", "9">>, hundredths |-> 99] >>

TopPSamplingKey == <<"top_p_sampling">>

TopPSamplingPreset ==
    [max_new_tokens |-> 200, do_sample |-> TRUE, top_p |-> 95,
     temperature |-> 100, num_return_sequences |-> 8, num_beams |-> 1]

\* f"sampling_topp_{str(topp).replace('.', '')}"
SamplingKey(topp) == <<"sampling_topp_">> \o Replace(topp.repr, ".", <<>>)

\* The value of the comprehension for one topp.
SamplingPreset(topp) ==
    [max_new_tokens |-> 200, do_sample |-> TRUE, num_return_sequences |-> 8,
     top_p |-> 95]

RawConfigs ==
    [key \in {TopPSamplingKey} \cup {SamplingKey(TopPs[i]) : i \in 1..Len(TopPs)} |->
        IF key = TopPSamplingKey
        THEN TopPSamplingPreset
        ELSE SamplingPreset(TopPs[CHOOSE i \in 1..Len(TopPs) : SamplingKey(TopPs[i]) = key])]

SharedDefaults == [min_length |-> 0, early_stopping |-> TRUE]

\* {**defaults, **value}: the keys of value take precedence.
MergeConfig(defaults, value) == value @@ defaults

GENERATION_CONFIGS ==
    [key \in DOMAIN RawConfigs |-> MergeConfig(SharedDefaults, RawConfigs[key])]

(***************************************************************************)
(* prepare_dataset.                                                        *)
(***************************************************************************)
YearFile(dataset_name) == <<"all_reviews_">> \o dataset_name \o <<".csv">>

NameFile(dataset_name) == <<>> \o dataset_name \o <<".csv">>

\* The file pd.read_csv is asked for, or {} when evaluating the argument
\* raises (int() of a non-numeric name, or dataset_path is None).
ResolveFile(dataset_name, dataset_path) ==
    IF dataset_path = {} \/ IntOf(dataset_name) = {}
    THEN {}
    ELSE IF \E y \in IntOf(dataset_name) : y \in 2017..2020
         THEN {YearFile(dataset_name)}
         ELSE {NameFile(dataset_name)}

\* The rows of the loaded dataset (0-based row indices) in a set, or {} when
\* prepare_dataset raises ValueError("Unknown dataset ...").
prepare_dataset(dataset_name, dataset_path, readable, nrows) ==
    IF \E f \in ResolveFile(dataset_name, dataset_path) : f \in readable
    THEN {[i \in 1..nrows |-> i - 1]}
    ELSE {}

\* dataset.select(range(min(limit, len(dataset)))) when a limit is given.
ApplyLimit(rows, limit) ==
    IF limit = {} THEN rows
    ELSE LET lim == CHOOSE n \in limit : TRUE
             m == IF lim < Len(rows) THEN lim ELSE Len(rows)
         IN SubSeq(rows, 1, m)

sanitize_model_name(model_name) == Replace(model_name, "/", <<"_">>)

(***************************************************************************)
(* evaluate_summarizer.                                                    *)
(***************************************************************************)
\* DataLoaderBatches with drop_last left at its default: the short last
\* slice is always delivered.
DataLoaderBatches_KeepLast(rows, batch_size, drop_last) ==
    LET nfull == Len(rows) \div batch_size
        rest == Len(rows) % batch_size
        n == IF rest # 0 THEN nfull + 1 ELSE nfull
    IN [t \in 1..n |->
          SubSeq(rows, (t - 1) * batch_size + 1,
                 IF t * batch_size < Len(rows) THEN t * batch_size ELSE Len(rows))]

\* DataLoader(dataset, batch_size, shuffle=False, drop_last): consecutive
\* slices of batch_size rows; a shorter last slice unless drop_last.
DataLoaderBatches(rows, batch_size, drop_last) ==
    LET nfull == Len(rows) \div batch_size
        rest == Len(rows) % batch_size
        n == IF rest # 0 /\ ~drop_last THEN nfull + 1 ELSE nfull
    IN [t \in 1..n |->
          SubSeq(rows, (t - 1) * batch_size + 1,
                 IF t * batch_size < Len(rows) THEN t * batch_size ELSE Len(rows))]

\* model.generate on a batch: num_return_sequences rows per input, the rows
\* of one input adjacent, all of one length.
Generate(batch, k, seq_len) ==
    [t \in 1..(Len(batch) * k) |->
        [src |-> batch[((t - 1) \div k) + 1], rank |-> (t - 1) % k, len |-> seq_len]]

\* A row of zeros appended by torch.nn.functional.pad.
PadRow(seq_len) == [src |-> PadSrc, rank |-> 0, len |-> seq_len]

\* pad_size of the loop body, in elements.
PadSize(total_size, target_size) ==
    (target_size - (total_size % target_size)) % target_size

\* The tensor after the optional padding.
PadOutputs(outputs, batch_size, use_padding) ==
    LET seq_len == outputs[1].len
        total_size == Len(outputs) * seq_len
        target_size == batch_size * seq_len
        pad_size == PadSize(total_size, target_size)
    IN IF use_padding /\ pad_size # 0
       THEN outputs \o [i \in 1..(pad_size \div seq_len) |-> PadRow(seq_len)]
       ELSE outputs

\* outputs.reshape(batch_size, -1, seq_len) succeeds iff the element count is
\* a multiple of batch_size * seq_len.
CanReshape(outputs, batch_size) ==
    (Len(outputs) * outputs[1].len) % (batch_size * outputs[1].len) = 0

\* tokenizer.decode(..., skip_special_tokens=True) of one row.
Decode(row) == [src |-> row.src, rank |-> row.rank]

\* The candidate lists appended for one reshaped batch: outputs[b, i] is row
\* b * outputs.shape[1] + i of the flat tensor.
DecodeBatch(outputs, batch_size) ==
    LET cand == Len(outputs) \div batch_size
    IN [b \in 1..batch_size |->
          [i \in 1..cand |-> Decode(outputs[(b - 1) * cand + i])]]

(***************************************************************************)
(* The explode / id_candidate tail of main.                                *)
(***************************************************************************)
\* The missing value explode leaves for an empty list.
NaN == [src |-> PadSrc - 1, rank |-> 0]

RECURSIVE ExplodeRows(_, _)
\* DataFrame.explode('summary') then reset_index(): one row per list
\* element, in order; a row with an empty list keeps one row holding NaN.
ExplodeRows(index, column) ==
    IF index = <<>> THEN <<>>
    ELSE (IF Head(column) = <<>>
          THEN << [index |-> Head(index), summary |-> NaN] >>
          ELSE [i \in 1..Len(Head(column)) |->
                   [index |-> Head(index), summary |-> Head(column)[i]]])
         \o ExplodeRows(Tail(index), Tail(column))

\* CumCount counting the row itself: a 1-based rank.
CumCount_OneBased(rows, p) ==
    Cardinality({q \in 1..p : rows[q].index = rows[p].index})

\* groupby(['index']).cumcount(): the number of earlier rows of the group.
CumCount(rows, p) ==
    Cardinality({q \in 1..(p - 1) : rows[q].index = rows[p].index})

AddIdCandidate(rows) ==
    [p \in 1..Len(rows) |->
        [index |-> rows[p].index, summary |-> rows[p].summary,
         id_candidate |-> CumCount(rows, p)]]

\* strftime("%Y-%m-%d-%H-%M-%S"): the clock to the second.
FormatDate(now) == now \div TicksPerSecond

OutputPath(a, now) ==
    [dir |-> a.output_dir,
     stem |-> sanitize_model_name(a.model_name) \o <<"-_-">> \o a.dataset_name
              \o <<"-_-">> \o a.decoding_config \o <<"-_-">>,
     date |-> FormatDate(now)]

(***************************************************************************)
(* Inputs.                                                                 *)
(***************************************************************************)
ModelNames == { <<"facebook", "/", "bart-large-cnn">>, <<"facebook", "_", "bart-large-cnn">> }

DatasetNames ==
    { <<"2", "0", "1", "7">>, <<"2", "0", "2", "0">>, <<"2", "0", "2", "1">>,
      <<"2", "0", "1", "6">>, <<"r", "e", "v", "i", "e", "w", "s">> }

Limits == {{}} \cup {{n} : n \in 0..MaxLimit}

ArgsSet ==
    [model_name : ModelNames,
     dataset_name : DatasetNames,
     dataset_path : {{<<"data/processed">>}},
     decoding_config : DOMAIN GENERATION_CONFIGS,
     batch_size : 1..MaxBatch,
     use_padding : BOOLEAN,
     output_dir : {<<"data/candidates">>},
     limit : Limits]

\* The files of dataset_path a name can resolve to.
DiskSet(a) == SUBSET {YearFile(a.dataset_name), NameFile(a.dataset_name)}

NoShape == [m |-> 0, rows |-> 0, padded |-> 0, cand |-> 0]

NoConfig == [key \in {} |-> 0]

\* The state of a run before its first statement.
RunStart ==
    /\ pc = "start"
    /\ decoding_config = NoConfig
    /\ dataset = <<>>
    /\ dataloader = <<>>
    /\ generated = <<>>
    /\ last_shape = NoShape
    /\ summaries = <<>>
    /\ summary = <<>>
    /\ df_dataset = <<>>
    /\ error = "none"

Init ==
    /\ args \in ArgsSet
    /\ disk \in DiskSet(args)
    /\ csv_rows \in IF disk = {} THEN {0} ELSE 0..MaxRows
    /\ RunStart
    /\ files = {}
    /\ written = <<>>
    /\ clock = 0
    /\ run = 1

(***************************************************************************)
(* main, one action per stage.                                             *)
(***************************************************************************)
\* parse_args, from_pretrained, model.to(device).
LoadModel ==
    /\ pc = "start"
    /\ pc' = "prepare"
    /\ UNCHANGED << args, disk, csv_rows, decoding_config, dataset, dataloader,
                    generated, last_shape, summaries, summary, df_dataset,
                    error, files, written, clock, run >>

\* PrepareDataset with the failure reported but not raised: the run goes on
\* with an empty dataset.
PrepareDataset_Swallowed ==
    /\ pc = "prepare"
    /\ LET loaded == prepare_dataset(args.dataset_name, args.dataset_path, disk, csv_rows)
       IN IF loaded = {}
          THEN /\ pc' = "limit"
               /\ error' = "Unknown dataset"
               /\ dataset' = <<>>
          ELSE /\ pc' = "limit"
               /\ dataset' = CHOOSE d \in loaded : TRUE
               /\ UNCHANGED error
    /\ UNCHANGED << args, disk, csv_rows, decoding_config, dataloader, generated,
                    last_shape, summaries, summary, df_dataset, files, written,
                    clock, run >>

PrepareDataset ==
    /\ pc = "prepare"
    /\ LET loaded == prepare_dataset(args.dataset_name, args.dataset_path, disk, csv_rows)
       IN IF loaded = {}
          THEN /\ pc' = "failed"
               /\ error' = "Unknown dataset"
               /\ UNCHANGED dataset
          ELSE /\ pc' = "limit"
               /\ dataset' = CHOOSE d \in loaded : TRUE
               /\ UNCHANGED error
    /\ UNCHANGED << args, disk, csv_rows, decoding_config, dataloader, generated,
                    last_shape, summaries, summary, df_dataset, files, written,
                    clock, run >>

\* The limit, and the call of evaluate_summarizer with the selected preset.
CallEvaluate ==
    /\ pc = "limit"
    /\ dataset' = ApplyLimit(dataset, args.limit)
    /\ decoding_config' = GENERATION_CONFIGS[args.decoding_config]
    /\ pc' = "evaluate"
    /\ UNCHANGED << args, disk, csv_rows, dataloader, generated, last_shape,
                    summaries, summary, df_dataset, error, files, written,
                    clock, run >>

\* The DataLoader and the empty summaries list.
StartEvaluate ==
    /\ pc = "evaluate"
    /\ dataloader' = DataLoaderBatches(dataset, args.batch_size, ~args.use_padding)
    /\ summaries' = <<>>
    /\ pc' = "batches"
    /\ UNCHANGED << args, disk, csv_rows, decoding_config, dataset, generated,
                    last_shape, summary, df_dataset, error, files, written,
                    clock, run >>

\* One iteration of the batch loop.
GenerateBatch ==
    /\ pc = "batches"
    /\ dataloader # <<>>
    /\ \E seq_len \in 1..MaxSeqLen :
         LET batch == Head(dataloader)
             k == decoding_config.num_return_sequences
             outputs == Generate(batch, k, seq_len)
             padded == PadOutputs(outputs, args.batch_size, args.use_padding)
         IN /\ generated' = Append(generated, batch)
            /\ dataloader' = Tail(dataloader)
            /\ IF CanReshape(padded, args.batch_size)
               THEN /\ summaries' = summaries \o DecodeBatch(padded, args.batch_size)
                    /\ last_shape' = [m |-> Len(batch), rows |-> Len(outputs),
                                      padded |-> Len(padded),
                                      cand |-> Len(padded) \div args.batch_size]
                    /\ UNCHANGED << pc, error >>
               ELSE /\ pc' = "failed"
                    /\ error' = "Cannot reshape tensor"
                    /\ last_shape' = [m |-> Len(batch), rows |-> Len(outputs),
                                      padded |-> Len(padded), cand |-> 0]
                    /\ UNCHANGED summaries
    /\ UNCHANGED << args, disk, csv_rows, decoding_config, dataset, summary,
                    df_dataset, files, written, clock, run >>

\* dataset.map(lambda example: {"summary": summaries.pop(0)}): one pop per
\* row, in row order; pop on an empty list raises IndexError.
MapSummaries ==
    /\ pc = "batches"
    /\ dataloader = <<>>
    /\ IF Len(summaries) < Len(dataset)
       THEN /\ pc' = "failed"
            /\ error' = "IndexError"
            /\ summaries' = <<>>
            /\ UNCHANGED summary
       ELSE /\ summary' = SubSeq(summaries, 1, Len(dataset))
            /\ summaries' = SubSeq(summaries, Len(dataset) + 1, Len(summaries))
            /\ pc' = "explode"
            /\ UNCHANGED error
    /\ UNCHANGED << args, disk, csv_rows, decoding_config, dataset, dataloader,
                    generated, last_shape, df_dataset, files, written, clock, run >>

Explode ==
    /\ pc = "explode"
    /\ df_dataset' = AddIdCandidate(ExplodeRows(dataset, summary))
    /\ pc' = "write"
    /\ UNCHANGED << args, disk, csv_rows, decoding_config, dataset, dataloader,
                    generated, last_shape, summaries, summary, error, files,
                    written, clock, run >>

\* to_csv at the timestamped path; an existing file of that path is replaced.
Write ==
    /\ pc = "write"
    /\ LET path == OutputPath(args, clock)
       IN /\ files' = {f \in files : f.path # path}
                        \cup {[path |-> path, run |-> run, nrows |-> Len(df_dataset)]}
          /\ written' = Append(written, [run |-> run, path |-> path, args |-> args])
    /\ pc' = "done"
    /\ UNCHANGED << args, disk, csv_rows, decoding_config, dataset, dataloader,
                    generated, last_shape, summaries, summary, df_dataset, error,
                    clock, run >>

Next ==
    \/ LoadModel
    \/ PrepareDataset
    \/ CallEvaluate
    \/ StartEvaluate
    \/ GenerateBatch
    \/ MapSummaries
    \/ Explode
    \/ Write

Spec == Init /\ [][Next]_vars

(***************************************************************************)
(* evaluate_summarizer called on its own, with any number of returned      *)
(* sequences.                                                              *)
(***************************************************************************)
EvalConfigs ==
    {[GENERATION_CONFIGS[TopPSamplingKey] EXCEPT !.num_return_sequences = k] : k \in 1..MaxK}

InitEval ==
    /\ args \in {a \in ArgsSet : /\ a.model_name = <<"facebook", "/", "bart-large-cnn">>
                                 /\ a.dataset_name = <<"2", "0", "1", "7">>
                                 /\ a.decoding_config = TopPSamplingKey
                                 /\ a.limit = {}}
    /\ disk = {}
    /\ csv_rows = 0
    /\ pc = "evaluate"
    /\ decoding_config \in EvalConfigs
    /\ \E n \in 0..MaxRows : dataset = [i \in 1..n |-> i - 1]
    /\ dataloader = <<>>
    /\ generated = <<>>
    /\ last_shape = NoShape
    /\ summaries = <<>>
    /\ summary = <<>>
    /\ df_dataset = <<>>
    /\ error = "none"
    /\ files = {}
    /\ written = <<>>
    /\ clock = 0
    /\ run = 1

NextEval ==
    \/ StartEvaluate
    \/ GenerateBatch
    \/ MapSummaries

SpecEval == InitEval /\ [][NextEval]_vars

(***************************************************************************)
(* Repeated runs of main over one output directory.  Runs of separate      *)
(* processes share only the directory and the clock, so they are taken one *)
(* after the other, the clock free to advance or not between any two       *)
(* steps.                                                                  *)
(***************************************************************************)
RunsArgsSet ==
    {a \in ArgsSet : /\ a.dataset_name \in {<<"2", "0", "1", "7">>, <<"r", "e", "v", "i", "e", "w", "s">>}
                     /\ a.decoding_config \in {TopPSamplingKey, SamplingKey(TopPs[1])}
                     /\ a.batch_size = 1
                     /\ a.use_padding
                     /\ a.limit = {}}

InitRuns ==
    /\ args \in RunsArgsSet
    /\ disk = {YearFile(<<"2", "0", "1", "7">>)}
    /\ csv_rows = 1
    /\ RunStart
    /\ files = {}
    /\ written = <<>>
    /\ clock = 0
    /\ run = 1

Tick ==
    /\ clock < MaxClock
    /\ clock' = clock + 1
    /\ UNCHANGED << pc, args, disk, csv_rows, decoding_config, dataset, dataloader,
                    generated, last_shape, summaries, summary, df_dataset, error,
                    files, written, run >>

\* The next invocation of the script.
NewRun ==
    /\ pc \in {"done", "failed"}
    /\ run < MaxRuns
    /\ run' = run + 1
    /\ args' \in RunsArgsSet
    /\ pc' = "start"
    /\ decoding_config' = NoConfig
    /\ dataset' = <<>>
    /\ dataloader' = <<>>
    /\ generated' = <<>>
    /\ last_shape' = NoShape
    /\ summaries' = <<>>
    /\ summary' = <<>>
    /\ df_dataset' = <<>>
    /\ error' = "none"
    /\ UNCHANGED << disk, csv_rows, files, written, clock >>

NextRuns ==
    \/ Next
    \/ Tick
    \/ NewRun

SpecRuns == InitRuns /\ [][NextRuns]_vars

(***************************************************************************)
(* Properties.                                                             *)
(***************************************************************************)
Mapped == pc \in {"explode", "write", "done"}

NumReturn == decoding_config.num_return_sequences

\* The sequences generate returns for the text of one row.
OwnSequences(row) == {[src |-> row, rank |-> r] : r \in 0..(NumReturn - 1)}

Candidates(i) == {summary[i][j] : j \in 1..Len(summary[i])}

\* C1: the candidate list the pop-front assignment gives to dataset row i
\* consists of exactly the sequences generated from row i's own text, for
\* either value of use_padding.
C1_RowOrder ==
    Mapped => \A i \in 1..Len(dataset) : Candidates(i) = OwnSequences(dataset[i])

\* The rows of the dataset that fall in full batches.
FullBatchRows ==
    {dataset[i] : i \in 1..((Len(dataset) \div args.batch_size) * args.batch_size)}

\* C2: with use_padding = False and N mod b # 0, no generate call is issued
\* for the last N mod b rows, no output row is emitted for them, and the
\* pipeline still completes and emits the rows of the full batches.
C2_DropLast ==
    (~args.use_padding /\ pc \notin {"start", "prepare", "limit", "evaluate"}
        /\ Len(dataset) % args.batch_size # 0)
    => /\ \A g \in 1..Len(generated) : \A p \in 1..Len(generated[g]) :
             generated[g][p] \in FullBatchRows
       /\ \A p \in 1..Len(df_dataset) : df_dataset[p].index \in FullBatchRows
       /\ error = "none"
       /\ pc = "done" => \A r \in FullBatchRows :
                            \E p \in 1..Len(df_dataset) : df_dataset[p].index = r

\* The rows of the partial last batch of the dataset.
PartialBatchRows == {dataset[i] : i \in 1..Len(dataset)} \ FullBatchRows

\* C3: with use_padding = True a final partial batch of m < b rows is
\* zero-padded, not dropped: b candidate lists are appended for it, and each
\* of its m rows appears in the output with decoded candidates.
C3_PartialBatchPadded ==
    (args.use_padding /\ pc \in {"batches", "explode", "write", "done"}
        /\ dataloader = <<>> /\ PartialBatchRows # {})
    => /\ last_shape.m = Cardinality(PartialBatchRows)
       /\ last_shape.padded > last_shape.rows
       /\ Len(summaries) + Len(summary) = Len(generated) * args.batch_size
       /\ pc = "done" => \A r \in PartialBatchRows :
                            \E p \in 1..Len(df_dataset) :
                               /\ df_dataset[p].index = r
                               /\ df_dataset[p].summary # NaN

\* C4: every dataset row that receives a summary list receives exactly
\* num_return_sequences candidates, for every b, N and either use_padding.
C4_CandidatesPerRow ==
    /\ last_shape.cand # 0 => last_shape.cand = NumReturn
    /\ Mapped => \A i \in 1..Len(dataset) : Len(summary[i]) = NumReturn

\* A name made of the decimal digits of a year in [2017, 2020].
IsYearToken(name) ==
    /\ Len(name) = 4
    /\ \A i \in 1..4 : IsDigit(name[i])
    /\ 1000 * DigitVal(name[1]) + 100 * DigitVal(name[2])
         + 10 * DigitVal(name[3]) + DigitVal(name[4]) \in 2017..2020

\* C5: a year in [2017, 2020] reads all_reviews_{year}.csv, any other name
\* reads {name}.csv, and prepare_dataset fails with "Unknown dataset" only
\* when that file cannot be read.
C5_ResolveName ==
    pc \notin {"start", "prepare"}
    => LET wanted == IF IsYearToken(args.dataset_name)
                     THEN <<"all_reviews_">> \o args.dataset_name \o <<".csv">>
                     ELSE args.dataset_name \o <<".csv">>
       IN (error = "Unknown dataset") <=> (wanted \notin disk)

RECURSIVE TotalCandidates(_)
TotalCandidates(n) == IF n = 0 THEN 0 ELSE TotalCandidates(n - 1) + Len(summary[n])

\* C6: exploding a dataset whose row i holds k_i candidates gives sum(k_i)
\* rows, and the rows of row i carry id_candidate 0..k_i-1 in the order the
\* candidates were generated.
C6_Explode ==
    pc \in {"write", "done"}
    => /\ Len(df_dataset) = TotalCandidates(Len(dataset))
       /\ \A i \in 1..Len(dataset) : \A j \in 1..Len(summary[i]) :
             df_dataset[TotalCandidates(i - 1) + j]
                = [index |-> dataset[i], summary |-> summary[i][j], id_candidate |-> j - 1]

C6_Witness ==
    /\ pc = "done"
    /\ \E i, j \in 1..Len(dataset) : i < j /\ Len(summary[i]) > Len(summary[j])
    /\ Len(df_dataset) > NumReturn

SameRunArgs(a, b) ==
    /\ a.model_name = b.model_name
    /\ a.dataset_name = b.dataset_name
    /\ a.decoding_config = b.decoding_config
    /\ a.output_dir = b.output_dir

\* C7: any two runs with the same model name, dataset name, decoding config
\* and output directory write to different paths, whenever they are started.
C7_UniquePaths ==
    \A i, j \in 1..Len(written) :
        (i < j /\ SameRunArgs(written[i].args, written[j].args))
        => written[i].path # written[j].path

\* C8: when prepare_dataset fails, no generate call has been issued and no
\* output file is written by that run.
C8_FailBeforeInference ==
    error = "Unknown dataset"
    => /\ pc = "failed"
       /\ generated = <<>>
       /\ \A f \in files : f.run # run
       /\ \A p \in 1..Len(written) : written[p].run # run

C8_Witness ==
    /\ error = "Unknown dataset"
    /\ pc = "failed"
    /\ disk # {}

\* C9: the reshape never fails: without padding only full batches are
\* delivered, with padding the row count after padding is the smallest
\* multiple of b that is >= m * k.
C9_ReshapeNeverFails ==
    /\ error # "Cannot reshape tensor"
    /\ last_shape.m # 0
       => IF args.use_padding
          THEN /\ last_shape.padded % args.batch_size = 0
               /\ last_shape.padded >= last_shape.m * NumReturn
               /\ last_shape.padded - args.batch_size < last_shape.m * NumReturn
          ELSE /\ last_shape.m = args.batch_size
               /\ last_shape.padded = args.batch_size * NumReturn

C9_Witness ==
    /\ args.use_padding
    /\ last_shape.m # 0
    /\ last_shape.m < args.batch_size
    /\ last_shape.padded > last_shape.rows
    /\ pc = "explode"

\* The nucleus threshold, in hundredths, the digits of a generated key spell:
\* "05" is 0.5, "095" is 0.95.
EncodedTopP(key) ==
    IF Len(key) = 3 THEN 10 * DigitVal(key[3])
    ELSE 10 * DigitVal(key[3]) + DigitVal(key[4])

\* C10: every preset carries the shared defaults under its own keys, each
\* sampling_topp_* preset carries the top_p its name encodes, and the four
\* are pairwise different.
C10_Presets ==
    pc \in {"evaluate", "batches", "explode", "write", "done"}
    => /\ decoding_config.min_length = 0
       /\ decoding_config.early_stopping = TRUE
       /\ \A f \in DOMAIN RawConfigs[args.decoding_config] :
             decoding_config[f] = RawConfigs[args.decoding_config][f]
       /\ args.decoding_config # TopPSamplingKey
          => /\ decoding_config.top_p = EncodedTopP(args.decoding_config)
             /\ \A other \in DOMAIN GENERATION_CONFIGS \ {TopPSamplingKey, args.decoding_config} :
                   GENERATION_CONFIGS[other] # decoding_config

====
